---- MODULE Spec2Model ----
(***************************************************************************)
(* Model of the queue migration tool (src/src/queue_migrator.py,           *)
(* src/src/message_utils.py, src/src/queue_utils.py, src/src/utils.py).    *)
(* The broker (control plane and data plane) is the environment: its       *)
(* state is the queues, their declarations, their ready messages, the      *)
(* bindings of the migrated queue and the messages delivered to the tool   *)
(* and not yet acknowledged.  migrate_queue is a sequential procedure; pc  *)
(* is its position, mv is the frame of the move_messages call in flight.   *)
(***************************************************************************)
EXTENDS Integers, Sequences, FiniteSets, TLC

\* ------------------------------------------------------------------ bounds
MaxMsgs == 2          \* messages initially in the original queue: 0..MaxMsgs
MaxPre == 1           \* messages in a temp queue left over before the run
MaxBindings == 2      \* bindings to named exchanges before the run
MaxKeys == 3          \* keys of an arguments mapping given to a helper function
MaxPolicies == 2      \* policies listed for the vhost
MaxPublished == 1     \* messages an application publishes during the run

\* ------------------------------------------------------------- names, data
Name == "q"
TargetType == "quorum"

TempName(name) == name \o "_temp_migrated"

QueueNames == {Name, TempName(Name)}

None == "None"

\* A message: body and properties, both handed through by the tool.
Msg(i) == [body |-> i, props |-> IF i % 2 = 0 THEN "persistent" ELSE "transient"]

\* A message that sat in a left-over temp queue before the run.
Foreign(j) == [body |-> 0 - j, props |-> "persistent"]

OriginalMsgs(n) == [i \in 1..n |-> Msg(i)]

ForeignMsgs(p) == [j \in 1..p |-> Foreign(j)]

Range(s) == {s[i] : i \in DOMAIN s}

EmptyArgs == [k \in {} |-> ""]

\* Arguments mappings a classic queue may carry (keys -> values, as strings).
ArgChoices ==
    { EmptyArgs,
      [k \in {"x-max-priority", "x-message-ttl"} |->
          IF k = "x-max-priority" THEN "10" ELSE "60000"],
      [k \in {"x-queue-type", "x-queue-mode"} |->
          IF k = "x-queue-type" THEN "classic" ELSE "lazy"] }

\* Argument keys and the values they may carry, for the mappings the helper
\* functions are evaluated on.
ArgKeys ==
    {"x-max-priority", "x-queue-master-locator", "x-queue-version",
     "x-queue-mode", "x-message-ttl", "overflow", "x-queue-type"}

ArgValues(k) ==
    CASE k = "x-max-priority" -> {"10"}
      [] k = "x-queue-master-locator" -> {"min-masters"}
      [] k = "x-queue-version" -> {"2"}
      [] k = "x-queue-mode" -> {"lazy", "default"}
      [] k = "x-message-ttl" -> {"60000"}
      [] k = "overflow" -> {"reject-publish-dlx", "drop-head"}
      [] k = "x-queue-type" -> {"classic"}

ArgMappings ==
    UNION { { f \in [S -> UNION { ArgValues(k) : k \in S }] :
                \A k \in S : f[k] \in ArgValues(k) } :
            S \in { T \in SUBSET ArgKeys : Cardinality(T) <= MaxKeys } }

QueueTypes == {"quorum", "stream"}

\* The policies of the vhost as GET /api/policies lists them (name and the
\* keys of the definition), and the policy name a queue may report.
Policies ==
    << [name |-> "ttl", definition |-> {"message-ttl"}],
       [name |-> "ha-all", definition |-> {"ha-mode", "ha-sync-mode"}] >>

PolicyNames == {None, "ttl", "ha-all"}

DefaultBinding == [source |-> "", routing_key |-> Name, arguments |-> EmptyArgs]

BindingUniverse ==
    { DefaultBinding,
      [source |-> "ex1", routing_key |-> "rk1", arguments |-> EmptyArgs],
      [source |-> "ex2", routing_key |-> "",
       arguments |-> [k \in {"x-match"} |-> "all"]] }

\* Lists of distinct bindings, as the management API returns them for an
\* existing queue: the broker binds every queue to the default exchange
\* under its own name and lists that binding with the others.
BindingLists ==
    { << DefaultBinding >> \o s :
        s \in { t \in UNION { [1..n -> BindingUniverse \ {DefaultBinding}] :
                                n \in 0..MaxBindings } :
                  \A i, j \in DOMAIN t : i # j => t[i] # t[j] } }

\* ---------------------------------------------------------------- utils.py
UNSUPPORTED_FEATURES(queue_type) ==
    IF queue_type = "quorum"
    THEN << "exclusive", "auto-delete", "x-max-priority",
            "x-queue-master-locator", "x-queue-version", "x-queue-mode" >>
    ELSE << >>

Restrict(f, S) == [k \in S |-> f[k]]

\* Variant: the loop stops after the first key it removed.
RECURSIVE RemoveLoopFirstOnly(_, _, _)
RemoveLoopFirstOnly(arguments, keys, n) ==
    IF n = 0
    THEN [args |-> arguments, removed |-> << >>]
    ELSE LET r == RemoveLoopFirstOnly(arguments, keys, n - 1)
         IN  IF keys[n] \in DOMAIN r.args /\ r.removed = << >>
             THEN [args |-> Restrict(r.args, DOMAIN r.args \ {keys[n]}),
                   removed |-> Append(r.removed, keys[n])]
             ELSE r

\* The loop of remove_unsupported_keys over the first n unsupported keys.
RECURSIVE RemoveLoop(_, _, _)
RemoveLoop(arguments, keys, n) ==
    IF n = 0
    THEN [args |-> arguments, removed |-> << >>]
    ELSE LET r == RemoveLoop(arguments, keys, n - 1)
         IN  IF keys[n] \in DOMAIN r.args
             THEN [args |-> Restrict(r.args, DOMAIN r.args \ {keys[n]}),
                   removed |-> Append(r.removed, keys[n])]
             ELSE r

remove_unsupported_keys(arguments, queue_type) ==
    RemoveLoop(arguments, UNSUPPORTED_FEATURES(queue_type),
               Len(UNSUPPORTED_FEATURES(queue_type)))

\* Variant: the keys are popped from the mapping that was passed.
ArgumentsAfterRemoveInPlace(arguments, queue_type) ==
    remove_unsupported_keys(arguments, queue_type).args

\* Line 80: the keys are popped from a copy, so the mapping the caller
\* passed is after the call what it was before.
ArgumentsAfterRemove(arguments, queue_type) == arguments

\* Variant: an 'x-queue-type' already among the arguments is kept.
SetQueueTypeDefault(args, target_type) ==
    [k \in DOMAIN args \cup {"x-queue-type"} |->
        IF k \in DOMAIN args THEN args[k] ELSE target_type]

\* args["x-queue-type"] = target_type
SetQueueType(args, target_type) ==
    [k \in DOMAIN args \cup {"x-queue-type"} |->
        IF k = "x-queue-type" THEN target_type ELSE args[k]]

\* The declaration migrate_queue sends for the temp and the recreated queue.
FilteredArgs(arguments, target_type) ==
    SetQueueType(remove_unsupported_keys(arguments, target_type).args, target_type)

\* utils.py lines 87-97: the policy named policy_name among the policies the
\* API lists, as << policy >>; << >> (None) when the queue has no policy,
\* the GET fails or no listed policy has the name.
RECURSIVE FirstNamed(_, _, _)
FirstNamed(policies, policy_name, i) ==
    IF i > Len(policies) THEN << >>
    ELSE IF policies[i].name = policy_name THEN << policies[i] >>
    ELSE FirstNamed(policies, policy_name, i + 1)

get_policy_by_name(policies, policy_name, status) ==
    IF policy_name = None THEN << >>
    ELSE IF status = 200 THEN FirstNamed(policies, policy_name, 1)
    ELSE << >>

\* queue_utils.py lines 102-108; migration_planner.py lines 75-80 define the
\* same function.
check_mirroring_policy(policy) ==
    IF policy = << >> THEN FALSE
    ELSE policy[1].definition \cap
            {"ha-mode", "ha-params", "ha-sync-mode", "ha-promote-on-shutdown",
             "ha-promote-on-failure"} # {}

\* ------------------------------------------------------ migration_planner.py
\* Variant: the target type does not ask for durability.
SUPPORTED_SETTINGS_durableFalse(target_type) == FALSE

\* utils.py lines 33-35: SUPPORTED_SETTINGS[target_type]["durable"]
SUPPORTED_SETTINGS_durable(target_type) == target_type = "quorum"

detect_migration_blockers(queue_info, target_type) ==
    (IF ~queue_info.durable /\ SUPPORTED_SETTINGS_durable(target_type)
     THEN << "Non-durable queues cannot be migrated." >> ELSE << >>)
    \o (IF queue_info.exclusive
        THEN << "Exclusive queues are not supported." >> ELSE << >>)
    \o (IF queue_info.auto_delete
        THEN << "Auto-delete queues cannot be migrated." >> ELSE << >>)

\* Variant: every value of 'x-queue-mode' is taken for an unsupported one.
UNSUPPORTED_ARGUMENT_VALUESAnyMode(key) ==
    IF key = "x-queue-mode" THEN {"lazy", "default"}
    ELSE IF key = "overflow" THEN {"reject-publish-dlx"}
    ELSE {}

\* utils.py lines 53-56: the values of an argument no quorum queue takes.
UNSUPPORTED_ARGUMENT_VALUES(key) ==
    IF key = "x-queue-mode" THEN {"lazy"}
    ELSE IF key = "overflow" THEN {"reject-publish-dlx"}
    ELSE {}

\* "Setting '{arg}' will be removed during migration."
RemovedWarning(arg) == [kind |-> "removed", key |-> arg, value |-> ""]

\* "Argument '{key}={value}' is not compatible with Quorum Queues."
IncompatibleWarning(key, value) ==
    [kind |-> "incompatible", key |-> key, value |-> value]

\* migration_planner.py lines 96-107: the two loops that fill `warnings`.
RECURSIVE WarnLoop(_, _, _)
WarnLoop(arguments, keys, n) ==
    IF n = 0 THEN << >>
    ELSE LET w == WarnLoop(arguments, keys, n - 1)
         IN  IF keys[n] \in DOMAIN arguments
             THEN Append(w, RemovedWarning(keys[n]))
             ELSE w

RECURSIVE ValueLoop(_, _, _)
ValueLoop(arguments, keys, n) ==
    IF n = 0 THEN << >>
    ELSE LET w == ValueLoop(arguments, keys, n - 1)
         IN  IF /\ keys[n] \in DOMAIN arguments
                /\ arguments[keys[n]] \in UNSUPPORTED_ARGUMENT_VALUES(keys[n])
             THEN Append(w, IncompatibleWarning(keys[n], arguments[keys[n]]))
             ELSE w

detect_migration_warnings(queue_info, target_type) ==
    WarnLoop(queue_info.arguments,
             << "x-queue-version", "x-queue-master-locator",
                "x-max-priority" >>, 3)
    \o ValueLoop(queue_info.arguments, << "x-queue-mode", "overflow" >>, 2)

\* The name of the queue a plan is made for, as its characters; << >> is a
\* queue without a name (a definition file entry that has none).
PlanQueueNames == { << >>, << "q" >>, << "a", "q" >> }

\* Policies of a vhost as GET /api/policies lists them. A pattern is a
\* regular expression given by its tokens ("^", "$", ".", ".*" or a
\* character), << >> when the policy has no "pattern"; definition is the set
\* of keys of the policy's definition.
VhostPolicies ==
    { [name |-> "ha-q", pattern |-> << << "q" >> >>, apply_to |-> "queues",
       definition |-> {"ha-mode", "ha-sync-mode"}],
      [name |-> "ttl-all", pattern |-> << << ".*" >> >>, apply_to |-> "all",
       definition |-> {"message-ttl"}],
      [name |-> "ha-ex", pattern |-> << << "^", ".", "$" >> >>,
       apply_to |-> "exchanges", definition |-> {"ha-mode"}],
      [name |-> "ha-a", pattern |-> << << "^", "a" >> >>, apply_to |-> "all",
       definition |-> {"ha-params", "max-length"}],
      [name |-> "bare", pattern |-> << >>, apply_to |-> "queues",
       definition |-> {"ha-promote-on-failure"}] }

\* Lists of distinct policies.
PolicyLists ==
    { s \in UNION { [1..n -> VhostPolicies] : n \in 0..MaxPolicies } :
        \A i, j \in DOMAIN s : i # j => s[i] # s[j] }

\* re.match(pattern, string): the pattern matches a prefix of the string.
RECURSIVE re_match(_, _)
re_match(pattern, string) ==
    IF pattern = << >> THEN TRUE
    ELSE LET t == Head(pattern)
             rest == Tail(pattern)
         IN  CASE t = "^" -> re_match(rest, string)
               [] t = "$" -> string = << >> /\ re_match(rest, string)
               [] t = ".*" ->
                    \E k \in 0..Len(string) :
                        re_match(rest, SubSeq(string, k + 1, Len(string)))
               [] t = "." -> string # << >> /\ re_match(rest, Tail(string))
               [] OTHER ->
                    /\ string # << >>
                    /\ Head(string) = t
                    /\ re_match(rest, Tail(string))

\* migration_planner.py lines 70-71: the test a policy passes to be returned.
PolicyApplies(policy, queue_name) ==
    /\ policy.pattern # << >>
    /\ policy.apply_to \in {"queues", "all"}
    /\ queue_name # << >>
    /\ re_match(policy.pattern[1], queue_name)

\* Variant: the loop runs to its end and keeps the last policy that passes.
RECURSIVE PolicyLoopLast(_, _, _)
PolicyLoopLast(policies, queue_name, i) ==
    IF i > Len(policies) THEN << >>
    ELSE LET later == PolicyLoopLast(policies, queue_name, i + 1)
         IN  IF later # << >> THEN later
             ELSE IF PolicyApplies(policies[i], queue_name)
                  THEN << policies[i] >>
                  ELSE << >>

\* migration_planner.py lines 69-72: the loop returns at the first policy
\* that passes the test.
RECURSIVE PolicyLoop(_, _, _)
PolicyLoop(policies, queue_name, i) ==
    IF i > Len(policies) THEN << >>
    ELSE IF PolicyApplies(policies[i], queue_name) THEN << policies[i] >>
    ELSE PolicyLoop(policies, queue_name, i + 1)

\* migration_planner.py lines 64-73: << policy >>, or << >> for None.
get_queue_policy(policies, queue_name, status) ==
    IF status = 200 THEN PolicyLoop(policies, queue_name, 1) ELSE << >>

\* "Queue has classic mirroring policy. This policy will be ignored ..."
MirroringWarning == [kind |-> "mirroring", key |-> "", value |-> ""]

\* Variant: a mirroring policy is reported as a blocker.
generate_migration_planBlocking(queue_info, policies, queue_name, status) ==
    LET mirroring_policy == get_queue_policy(policies, queue_name, status)
        has_mirroring == check_mirroring_policy(mirroring_policy)
        blockers_quorum == detect_migration_blockers(queue_info, "quorum")
        warnings_quorum == detect_migration_warnings(queue_info, "quorum")
    IN  [blockers |-> IF has_mirroring
                      THEN Append(blockers_quorum, "mirroring")
                      ELSE blockers_quorum,
         warnings |-> warnings_quorum,
         mirroring_policy |-> mirroring_policy]

\* migration_planner.py lines 117-142: the plan made from a queue's settings
\* and the answer to GET /api/policies.
generate_migration_plan(queue_info, policies, queue_name, status) ==
    LET mirroring_policy == get_queue_policy(policies, queue_name, status)
        has_mirroring == check_mirroring_policy(mirroring_policy)
        blockers_quorum == detect_migration_blockers(queue_info, "quorum")
        warnings_quorum == detect_migration_warnings(queue_info, "quorum")
    IN  [blockers |-> blockers_quorum,
         warnings |-> IF has_mirroring
                      THEN Append(warnings_quorum, MirroringWarning)
                      ELSE warnings_quorum,
         mirroring_policy |-> mirroring_policy]

\* -------------------------------------------------------------------- state
VARIABLES
    exists,          \* broker: [QueueNames -> BOOLEAN]
    decl,            \* broker: declaration of each queue
    msgs,            \* broker: ready messages of each queue, head first
    bindings,        \* broker: bindings of the queue Name, as listed by the API
    unacked,         \* broker: messages delivered to the tool, not yet acked
    pc,              \* migrate_queue: the step about to run
    haltedAt,        \* migrate_queue: the step at which it returned early
    settings,        \* migrate_queue: result of get_queue_settings
    fetched,         \* migrate_queue: result of get_queue_bindings
    bindIdx,         \* migrate_queue: index of the next binding of the loop
    messages_moved,  \* migrate_queue: << >>, or << result of the forward move >>
    moved_back,      \* migrate_queue: << >>, or << result of the return move >>
    mv,              \* frame of the current / last move_messages call
    calls,           \* history: broker operations issued, in order
    bindCalls,       \* history: bindings passed to create_binding, in order
    initial,         \* history: the original queue before the run
    api,             \* send_api_request: the last request made and its answer
    fn               \* frame of a call of one of the pure helper functions

vars == << exists, decl, msgs, bindings, unacked, pc, haltedAt, settings,
           fetched, bindIdx, messages_moved, moved_back, mv, calls,
           bindCalls, initial, api, fn >>

broker == << exists, decl, msgs, bindings, unacked >>

NoDecl == [durable |-> TRUE, exclusive |-> FALSE, auto_delete |-> FALSE,
           arguments |-> EmptyArgs]

IdleMove == [phase |-> "idle", source |-> None, target |-> None,
             messages_moved |-> 0, published |-> 0, acks |-> 0, nacks |-> 0,
             delivered |-> << >>, sent |-> << >>, srcStart |-> << >>,
             dstStart |-> << >>, open |-> {}, passive |-> None,
             publish_calls |-> 0, ack_calls |-> 0, nack_calls |-> 0,
             failed |-> None, result |-> << >>, exit |-> None]

NoRequest == [method |-> None, target |-> None, status |-> 0, attempts |-> 0]

\* No helper function is being evaluated.
IdleCall ==
    [step |-> "idle", queue_type |-> TargetType,
     queue_info |-> [durable |-> TRUE, exclusive |-> FALSE,
                     auto_delete |-> FALSE, arguments |-> EmptyArgs],
     given |-> EmptyArgs,
     first |-> [args |-> EmptyArgs, removed |-> << >>],
     second |-> [args |-> EmptyArgs, removed |-> << >>],
     blockers |-> << >>, warnings |-> << >>,
     queue_name |-> << >>, policies |-> << >>, status |-> 0,
     deleted |-> FALSE,
     plan |-> [blockers |-> << >>, warnings |-> << >>,
               mirroring_policy |-> << >>]]

Flags == { [durable |-> d, exclusive |-> e, auto_delete |-> a] :
             d \in BOOLEAN, e \in BOOLEAN, a \in BOOLEAN }

\* What a temp queue left over by an earlier halted run was declared with.
LeftoverDecl(d) ==
    [durable |-> d.durable, exclusive |-> FALSE, auto_delete |-> FALSE,
     arguments |-> FilteredArgs(d.arguments, TargetType)]


Worlds ==
    { [orig |-> o, flags |-> f, arguments |-> a, n |-> n, bl |-> bl,
       temp |-> t, p |-> p] :
        o \in BOOLEAN, f \in Flags, a \in ArgChoices, n \in 0..MaxMsgs,
        bl \in BindingLists, t \in {"absent", "leftover", "other"},
        p \in 0..MaxPre }

\* A queue that does not exist has no flags, messages or bindings; only a
\* left-over temp queue holds messages, and an earlier run can only have
\* left one if the broker took its declaration.
WellFormed(w) ==
    /\ w.temp = "leftover" => w.flags.durable
    /\ ~w.orig => /\ w.flags = [durable |-> TRUE, exclusive |-> FALSE,
                                auto_delete |-> FALSE]
                  /\ w.arguments = EmptyArgs /\ w.n = 0
                  /\ w.bl = << DefaultBinding >>
                  /\ w.temp = "absent"
    /\ w.temp # "leftover" => w.p = 0

OrigDecl(w) ==
    [durable |-> w.flags.durable, exclusive |-> w.flags.exclusive,
     auto_delete |-> w.flags.auto_delete, arguments |-> w.arguments]

Init ==
    \E w \in Worlds :
        /\ WellFormed(w)
        /\ exists = [q \in QueueNames |->
                        IF q = Name THEN w.orig ELSE w.temp # "absent"]
        /\ decl = [q \in QueueNames |->
                        IF q = Name THEN OrigDecl(w)
                        ELSE IF w.temp = "leftover" THEN LeftoverDecl(OrigDecl(w))
                        ELSE NoDecl]
        /\ msgs = [q \in QueueNames |->
                        IF q = Name THEN OriginalMsgs(w.n) ELSE ForeignMsgs(w.p)]
        /\ bindings = (IF w.orig THEN w.bl ELSE << >>)
        /\ unacked = << >>
        /\ pc = "fetch_settings"
        /\ haltedAt = None
        /\ settings = None
        /\ fetched = << >>
        /\ bindIdx = 1
        /\ messages_moved = << >>
        /\ moved_back = << >>
        /\ mv = IdleMove
        /\ calls = << >>
        /\ bindCalls = << >>
        /\ api = NoRequest
        /\ fn = IdleCall
        /\ initial = [exists |-> w.orig, decl |-> OrigDecl(w),
                      msgs |-> OriginalMsgs(w.n),
                      bindings |-> (IF w.orig THEN w.bl ELSE << >>),
                      tempExists |-> w.temp # "absent",
                      tempMsgs |-> ForeignMsgs(w.p)]

\* ------------------------------------------------ broker: control-plane API
\* Status 0 stands for "no response" (send_api_request returns None).
Unavailable == {500, 0}

GetStatuses(q) == (IF exists[q] THEN {200} ELSE {404}) \cup Unavailable

\* The broker takes a declaration of the target type only if it is durable.
Declarable(d) ==
    ("x-queue-type" \in DOMAIN d.arguments
        /\ SUPPORTED_SETTINGS_durable(d.arguments["x-queue-type"]))
    => d.durable

\* PUT /api/queues: 201 creates, 204 answers an equivalent existing queue,
\* 400 an inequivalent one or a declaration the broker does not take.
PutStatuses(q, d) ==
    (IF ~Declarable(d) THEN {400}
     ELSE IF ~exists[q] THEN {201}
     ELSE IF decl[q] = d THEN {204} ELSE {400})
    \cup Unavailable

\* DELETE /api/queues[?if-empty=true]
DeleteStatuses(q, if_empty) ==
    (IF ~exists[q] THEN {404}
     ELSE IF if_empty /\ msgs[q] # << >> THEN {400} ELSE {204})
    \cup Unavailable

\* POST /api/bindings: 404 when the exchange is not there.
BindStatuses == {201, 404} \cup Unavailable

PutDecl(durable, arguments) ==
    [durable |-> durable, exclusive |-> FALSE, auto_delete |-> FALSE,
     arguments |-> arguments]

\* ------------------------------------------------------------ queue_utils.py
get_queue_settings_ok(status) == status = 200

\* Variant: only the "already exists" answer counts as success.
create_queue_okOnly204(status) == status = 204

create_queue_ok(status) == status \in {201, 204}

\* utils.py lines 61-72: send_api_request hands back the response of a
\* failed request (e.response) or None when there is none. A response object
\* counts as true only when its status is below 400, so `if response and ...`
\* is false for None and for every 4xx and 5xx answer. (In the other
\* functions every accepted status is below 400.)
ResponseTruthy(status) == status # 0 /\ status < 400

\* What the broker may answer to a DELETE of a queue.
DeleteAnswers == {200, 204, 400, 404, 500, 0}

\* queue_utils.py line 52
delete_queue_ok(status) ==
    ResponseTruthy(status) /\ status \in {200, 204, 404}

get_queue_bindings_ok(status) == status = 200

\* Variant: the answer to the POST of a binding is not looked at.
create_binding_okAny(status) == TRUE

create_binding_ok(status) == status \in {201, 204}

\* utils.py lines 61-72: one call of requests.request; the answer, or no
\* answer (status 0), goes to the caller as it is.
send_api_request(method, target, status) ==
    api' = [method |-> method, target |-> target, status |-> status,
            attempts |-> 1]

\* ------------------------------------------------------- queue_migrator.py
\* Variant: a failed step is logged and attempted again.
AbortAndRetry(step) == haltedAt' = step /\ UNCHANGED pc

Abort(step) == pc' = "aborted" /\ haltedAt' = step

Call(op, q) == calls' = Append(calls, << op, q >>)

\* lines 45-48
FetchSettings ==
    /\ pc = "fetch_settings"
    /\ \E status \in GetStatuses(Name), policy_name \in PolicyNames :
        /\ send_api_request("GET", Name, status)
        /\ IF get_queue_settings_ok(status)
           THEN /\ settings' = [durable |-> decl[Name].durable,
                                arguments |-> decl[Name].arguments,
                                policy |-> policy_name]
                /\ pc' = "check_policy"
                /\ UNCHANGED haltedAt
           ELSE /\ Abort("fetch_settings")
                /\ UNCHANGED settings
    /\ UNCHANGED << broker, fetched, bindIdx, messages_moved, moved_back, mv,
                    calls, bindCalls, initial, fn >>

\* Variant: a mirroring policy stops the migration.
CheckPolicyBlocks ==
    /\ pc = "check_policy"
    /\ \E status \in {200} \cup Unavailable :
        /\ IF settings.policy = None THEN UNCHANGED api
           ELSE send_api_request("GET", "policies", status)
        /\ LET policy == get_policy_by_name(Policies, settings.policy, status)
           IN  IF check_mirroring_policy(policy)
               THEN pc' = "aborted"
               ELSE pc' = "fetch_bindings"
    /\ UNCHANGED << broker, haltedAt, settings, fetched, bindIdx,
                    messages_moved, moved_back, mv, calls, bindCalls,
                    initial, fn >>

\* lines 50-52: the policy found (or not) is only logged.
CheckPolicy ==
    /\ pc = "check_policy"
    /\ \E status \in {200} \cup Unavailable :
        /\ IF settings.policy = None THEN UNCHANGED api
           ELSE send_api_request("GET", "policies", status)
        /\ LET policy == get_policy_by_name(Policies, settings.policy, status)
           IN  IF check_mirroring_policy(policy)
               THEN pc' = "fetch_bindings"
               ELSE pc' = "fetch_bindings"
    /\ UNCHANGED << broker, haltedAt, settings, fetched, bindIdx,
                    messages_moved, moved_back, mv, calls, bindCalls,
                    initial, fn >>

\* lines 54-58
FetchBindings ==
    /\ pc = "fetch_bindings"
    /\ \E status \in GetStatuses(Name) :
        /\ send_api_request("GET", Name, status)
        /\ IF get_queue_bindings_ok(status)
           THEN /\ fetched' = bindings
                /\ pc' = "create_temp"
                /\ UNCHANGED haltedAt
           ELSE /\ Abort("fetch_bindings")
                /\ UNCHANGED fetched
    /\ UNCHANGED << broker, settings, bindIdx, messages_moved, moved_back, mv,
                    calls, bindCalls, initial, fn >>

\* Effect of a PUT on the broker: a new queue is empty and bound to the
\* default exchange only.
BrokerPut(q, d, status) ==
    IF status = 201
    THEN /\ exists' = [exists EXCEPT ![q] = TRUE]
         /\ decl' = [decl EXCEPT ![q] = d]
         /\ msgs' = [msgs EXCEPT ![q] = << >>]
         /\ bindings' = IF q = Name THEN << DefaultBinding >> ELSE bindings
    ELSE UNCHANGED << exists, decl, msgs, bindings >>

\* Effect of a DELETE on the broker: the queue goes with its messages and
\* its bindings.
BrokerDelete(q, status) ==
    IF status = 204
    THEN /\ exists' = [exists EXCEPT ![q] = FALSE]
         /\ msgs' = [msgs EXCEPT ![q] = << >>]
         /\ bindings' = IF q = Name THEN << >> ELSE bindings
         /\ UNCHANGED decl
    ELSE UNCHANGED << exists, decl, msgs, bindings >>

\* lines 60-68
CreateTemp ==
    /\ pc = "create_temp"
    /\ LET d == PutDecl(settings.durable,
                        FilteredArgs(settings.arguments, TargetType))
       IN  \E status \in PutStatuses(TempName(Name), d) :
            /\ send_api_request("PUT", TempName(Name), status)
            /\ BrokerPut(TempName(Name), d, status)
            /\ IF create_queue_ok(status)
               THEN pc' = "move_forward" /\ UNCHANGED haltedAt
               ELSE Abort("create_temp")
    /\ settings' = [settings EXCEPT
                        !.arguments = ArgumentsAfterRemove(@, TargetType)]
    /\ Call("create_queue", TempName(Name))
    /\ UNCHANGED << unacked, fetched, bindIdx, messages_moved,
                    moved_back, mv, bindCalls, initial, fn >>


\* ---------------------------------------------------------- message_utils.py
MoveSource == IF pc = "move_forward" THEN Name ELSE TempName(Name)

MoveTarget == IF pc = "move_forward" THEN TempName(Name) ELSE Name

InMove == pc \in {"move_forward", "move_back"}

Running == mv.phase \in {"declare", "consume", "publish", "ack", "nack"}

\* Variant: the properties are not handed to basic_publish.
PublishedMessageDefaultProps(m) == [body |-> m.body, props |-> "transient"]

\* basic_publish(exchange="", routing_key=target_queue, body=body,
\* properties=properties): what reaches the destination queue.
PublishedMessage(m) == [body |-> m.body, props |-> m.props]

\* The finally block (lines 87-93): both connections are closed, and the
\* broker puts every message left unacknowledged back at the head of the
\* source queue.
CloseConnections(source) ==
    /\ msgs' = [msgs EXCEPT ![source] = unacked \o @]
    /\ unacked' = << >>

\* Variant: a forward result of 0 is taken for a failure.
AfterMoveZeroFails(v) ==
    IF pc = "move_forward"
    THEN /\ messages_moved' = << v >>
         /\ IF v <= 0 THEN pc' = "aborted" /\ haltedAt' = "move_forward"
            ELSE pc' = "delete_original" /\ UNCHANGED haltedAt
         /\ UNCHANGED moved_back
    ELSE /\ moved_back' = << v >>
         /\ pc' = "verify_count"
         /\ UNCHANGED << messages_moved, haltedAt >>

\* Variant: the forward result is not tested for the failure sentinel.
AfterMoveUnchecked(v) ==
    IF pc = "move_forward"
    THEN /\ messages_moved' = << v >>
         /\ pc' = "delete_original"
         /\ UNCHANGED << moved_back, haltedAt >>
    ELSE /\ moved_back' = << v >>
         /\ pc' = "verify_count"
         /\ UNCHANGED << messages_moved, haltedAt >>

\* migrate_queue after the forward move (lines 70-81) and after the return
\* move (lines 107-110).
AfterMove(v) ==
    IF pc = "move_forward"
    THEN /\ messages_moved' = << v >>
         /\ IF v = -1 THEN Abort("move_forward")
            ELSE pc' = "delete_original" /\ UNCHANGED haltedAt
         /\ UNCHANGED moved_back
    ELSE /\ moved_back' = << v >>
         /\ pc' = "verify_count"
         /\ UNCHANGED << messages_moved, haltedAt >>

\* move_messages returns v; frame is the frame at the return statement.
Return(frame, v, why) ==
    /\ mv' = [frame EXCEPT !.phase = "returned", !.result = << v >>, !.exit = why,
                           !.open = {}]
    /\ AfterMove(v)

\* lines 31-37: the two connections and channels are opened; any of it may
\* raise, which the outer handler turns into -1.
MoveConnect ==
    /\ InMove
    /\ ~Running
    /\ LET frame == [IdleMove EXCEPT !.source = MoveSource,
                                   !.target = MoveTarget,
                                   !.srcStart = msgs[MoveSource],
                                   !.dstStart = msgs[MoveTarget]]
       IN  \E ok \in BOOLEAN :
            IF ok
            THEN /\ mv' = [frame EXCEPT !.phase = "declare",
                                        !.open = {"source", "target"}]
                 /\ UNCHANGED << pc, haltedAt, messages_moved, moved_back >>
            ELSE Return(frame, -1, "connect")
    /\ Call("move_messages", MoveSource)
    /\ UNCHANGED << broker, settings, fetched, bindIdx, bindCalls,
                    initial, api, fn >>

\* Variant: the failed passive declare is logged and consumption starts.
MoveDeclareIgnored ==
    /\ pc \in {"move_forward", "move_back"}
    /\ mv.phase = "declare"
    /\ \E ok \in BOOLEAN :
        mv' = [mv EXCEPT !.phase = "consume",
                         !.passive = IF ok /\ exists[mv.target]
                                     THEN "ok" ELSE "failed"]
    /\ UNCHANGED << broker, pc, haltedAt, messages_moved, moved_back,
                    settings, fetched, bindIdx, calls, bindCalls,
                    initial, api, fn >>

\* lines 38-42: passive declare of the destination.
MoveDeclare ==
    /\ InMove
    /\ mv.phase = "declare"
    /\ \E ok \in BOOLEAN :
        IF ok /\ exists[mv.target]
        THEN /\ mv' = [mv EXCEPT !.phase = "consume", !.passive = "ok"]
             /\ UNCHANGED << pc, haltedAt, messages_moved, moved_back >>
        ELSE Return([mv EXCEPT !.passive = "failed"], -1, "declare")
    /\ UNCHANGED << broker, settings, fetched, bindIdx, calls, bindCalls,
                    initial, api, fn >>

\* lines 44-46: the consumer yields the next message of the source queue.
MoveDeliver ==
    /\ InMove
    /\ mv.phase = "consume"
    /\ exists[mv.source]
    /\ msgs[mv.source] # << >>
    /\ unacked' = << Head(msgs[mv.source]) >>
    /\ msgs' = [msgs EXCEPT ![mv.source] = Tail(@)]
    /\ mv' = [mv EXCEPT !.phase = "publish",
                        !.delivered = Append(@, Head(msgs[mv.source]))]
    /\ UNCHANGED << exists, decl, bindings, pc, haltedAt, settings, fetched,
                    bindIdx, messages_moved, moved_back, calls, bindCalls,
                    initial, api, fn >>

\* lines 44-48, 72-81: the consumer yields (None, None, None) after three
\* seconds without a delivery, whatever the queue still holds; the loop
\* ends, the consumer is cancelled and the count is returned.
MoveTimeout ==
    /\ InMove
    /\ mv.phase = "consume"
    /\ Return(mv, mv.messages_moved, "timeout")
    /\ CloseConnections(mv.source)
    /\ UNCHANGED << exists, decl, bindings, settings, fetched, bindIdx, calls,
                    bindCalls, initial, api, fn >>

\* Variant: a consumer that fails ends the loop like a quiet period does.
MoveConsumeErrorAsEnd ==
    /\ InMove
    /\ mv.phase = "consume"
    /\ Return(mv, mv.messages_moved, "consume")
    /\ CloseConnections(mv.source)
    /\ UNCHANGED << exists, decl, bindings, settings, fetched, bindIdx, calls,
                    bindCalls, initial, api, fn >>

\* lines 44-46, 83-85: consuming raises (connection or channel lost).
MoveConsumeError ==
    /\ InMove
    /\ mv.phase = "consume"
    /\ Return(mv, -1, "consume")
    /\ CloseConnections(mv.source)
    /\ UNCHANGED << exists, decl, bindings, settings, fetched, bindIdx, calls,
                    bindCalls, initial, api, fn >>

\* Variant: the channel is not in confirm mode, so a publish the broker
\* did not take is not noticed.
MovePublishUnconfirmed ==
    /\ pc \in {"move_forward", "move_back"}
    /\ mv.phase = "publish"
    /\ \E confirmed \in BOOLEAN :
        IF confirmed /\ exists[mv.target]
        THEN /\ msgs' = [msgs EXCEPT ![mv.target] = Append(@, unacked[1])]
             /\ mv' = [mv EXCEPT !.phase = "ack",
                                 !.publish_calls = @ + 1,
                                 !.published = @ + 1,
                                 !.sent = Append(@, unacked[1])]
        ELSE /\ mv' = [mv EXCEPT !.phase = "ack", !.publish_calls = @ + 1]
             /\ UNCHANGED msgs
    /\ UNCHANGED << exists, decl, bindings, unacked, pc, haltedAt, settings,
                    fetched, bindIdx, messages_moved, moved_back, calls,
                    bindCalls, initial, api, fn >>

\* lines 50-56: publish under delivery confirmation.
MovePublish ==
    /\ InMove
    /\ mv.phase = "publish"
    /\ \E confirmed \in BOOLEAN :
        IF confirmed /\ exists[mv.target]
        THEN /\ msgs' = [msgs EXCEPT ![mv.target] =
                            Append(@, PublishedMessage(unacked[1]))]
             /\ mv' = [mv EXCEPT !.phase = "ack",
                                 !.publish_calls = @ + 1,
                                 !.published = @ + 1,
                                 !.sent = Append(@, PublishedMessage(unacked[1]))]
        ELSE /\ mv' = [mv EXCEPT !.phase = "nack", !.publish_calls = @ + 1,
                                 !.failed = "publish"]
             /\ UNCHANGED msgs
    /\ UNCHANGED << exists, decl, bindings, unacked, pc, haltedAt, settings,
                    fetched, bindIdx, messages_moved, moved_back, calls,
                    bindCalls, initial, api, fn >>

\* Variant: the counter is not advanced after the acknowledgement.
MoveAckUncounted ==
    /\ InMove
    /\ mv.phase = "ack"
    /\ \E ok \in BOOLEAN :
        IF ok
        THEN /\ unacked' = << >>
             /\ mv' = [mv EXCEPT !.phase = "consume",
                                 !.ack_calls = @ + 1,
                                 !.acks = @ + 1]
        ELSE /\ mv' = [mv EXCEPT !.phase = "nack", !.ack_calls = @ + 1,
                                 !.failed = "ack"]
             /\ UNCHANGED unacked
    /\ UNCHANGED << exists, decl, msgs, bindings, pc, haltedAt, settings,
                    fetched, bindIdx, messages_moved, moved_back, calls,
                    bindCalls, initial, api, fn >>

\* lines 57-58: acknowledge the source message, count it.
MoveAck ==
    /\ InMove
    /\ mv.phase = "ack"
    /\ \E ok \in BOOLEAN :
        IF ok
        THEN /\ unacked' = << >>
             /\ mv' = [mv EXCEPT !.phase = "consume",
                                 !.ack_calls = @ + 1,
                                 !.acks = @ + 1,
                                 !.messages_moved = @ + 1]
        ELSE /\ mv' = [mv EXCEPT !.phase = "nack", !.ack_calls = @ + 1,
                                 !.failed = "ack"]
             /\ UNCHANGED unacked
    /\ UNCHANGED << exists, decl, msgs, bindings, pc, haltedAt, settings,
                    fetched, bindIdx, messages_moved, moved_back, calls,
                    bindCalls, initial, api, fn >>

\* Variant: after the negative acknowledgement the count so far is returned.
MoveNackReturnsCount ==
    /\ InMove
    /\ mv.phase = "nack"
    /\ \E ok \in BOOLEAN :
        IF ok
        THEN Return([mv EXCEPT !.nack_calls = @ + 1, !.nacks = @ + 1],
                    mv.messages_moved, "nack")
        ELSE Return([mv EXCEPT !.nack_calls = @ + 1], -1, "nack_raised")
    /\ CloseConnections(mv.source)
    /\ UNCHANGED << exists, decl, bindings, settings, fetched, bindIdx, calls,
                    bindCalls, initial, api, fn >>

\* Variant: the negative acknowledgement does not ask for a requeue.
MoveNackDiscard ==
    /\ InMove
    /\ mv.phase = "nack"
    /\ \E ok \in BOOLEAN :
        IF ok
        THEN /\ Return([mv EXCEPT !.nack_calls = @ + 1, !.nacks = @ + 1],
                       -1, "nack")
             /\ unacked' = << >>
             /\ UNCHANGED msgs
        ELSE /\ Return([mv EXCEPT !.nack_calls = @ + 1], -1, "nack_raised")
             /\ CloseConnections(mv.source)
    /\ UNCHANGED << exists, decl, bindings, settings, fetched, bindIdx, calls,
                    bindCalls, initial, api, fn >>

\* lines 62-70 (and 83-85 when basic_nack raises too): the message goes back
\* to the source queue, by the nack or by the closing connection, and the
\* call returns -1.
MoveNack ==
    /\ InMove
    /\ mv.phase = "nack"
    /\ \E ok \in BOOLEAN :
        IF ok
        THEN Return([mv EXCEPT !.nack_calls = @ + 1, !.nacks = @ + 1],
                    -1, "nack")
        ELSE Return([mv EXCEPT !.nack_calls = @ + 1], -1, "nack_raised")
    /\ CloseConnections(mv.source)
    /\ UNCHANGED << exists, decl, bindings, settings, fetched, bindIdx, calls,
                    bindCalls, initial, api, fn >>


\* Variant: the original queue is deleted without the if-empty condition.
DeleteOriginalUnconditional ==
    /\ pc = "delete_original"
    /\ \E status \in DeleteStatuses(Name, FALSE) :
        /\ send_api_request("DELETE", Name, status)
        /\ BrokerDelete(Name, status)
        /\ IF delete_queue_ok(status)
           THEN pc' = "recreate_original" /\ UNCHANGED haltedAt
           ELSE Abort("delete_original")
    /\ Call("delete_queue", Name)
    /\ UNCHANGED << unacked, settings, fetched, bindIdx, messages_moved,
                    moved_back, mv, bindCalls, initial, fn >>

\* ------------------------------------------- queue_migrator.py, continued
\* lines 83-86
DeleteOriginal ==
    /\ pc = "delete_original"
    /\ \E status \in DeleteStatuses(Name, TRUE) :
        /\ send_api_request("DELETE", Name, status)
        /\ BrokerDelete(Name, status)
        /\ IF delete_queue_ok(status)
           THEN pc' = "recreate_original" /\ UNCHANGED haltedAt
           ELSE Abort("delete_original")
    /\ Call("delete_queue", Name)
    /\ UNCHANGED << unacked, settings, fetched, bindIdx, messages_moved,
                    moved_back, mv, bindCalls, initial, fn >>

\* Variant: the result of recreating the original queue is not tested.
RecreateOriginalUnchecked ==
    /\ pc = "recreate_original"
    /\ LET d == PutDecl(settings.durable,
                        FilteredArgs(settings.arguments, TargetType))
       IN  \E status \in PutStatuses(Name, d) :
            /\ send_api_request("PUT", Name, status)
            /\ BrokerPut(Name, d, status)
            /\ pc' = "rebind"
            /\ UNCHANGED haltedAt
    /\ settings' = [settings EXCEPT
                        !.arguments = ArgumentsAfterRemove(@, TargetType)]
    /\ Call("create_queue", Name)
    /\ UNCHANGED << unacked, fetched, bindIdx, messages_moved,
                    moved_back, mv, bindCalls, initial, fn >>

\* lines 88-96
RecreateOriginal ==
    /\ pc = "recreate_original"
    /\ LET d == PutDecl(settings.durable,
                        FilteredArgs(settings.arguments, TargetType))
       IN  \E status \in PutStatuses(Name, d) :
            /\ send_api_request("PUT", Name, status)
            /\ BrokerPut(Name, d, status)
            /\ IF create_queue_ok(status)
               THEN pc' = "rebind" /\ UNCHANGED haltedAt
               ELSE Abort("recreate_original")
    /\ settings' = [settings EXCEPT
                        !.arguments = ArgumentsAfterRemove(@, TargetType)]
    /\ Call("create_queue", Name)
    /\ UNCHANGED << unacked, fetched, bindIdx, messages_moved,
                    moved_back, mv, bindCalls, initial, fn >>

\* Variant: create_binding is called for every fetched binding.
ShouldBindAlways(binding) == TRUE

\* Variant: bindings with an empty routing key are skipped as well.
ShouldBindWithKey(binding) == binding.source # "" /\ binding.routing_key # ""

\* Line 102: `exchange and ...` -- create_binding is called only for a
\* binding whose source exchange is a non-empty string.
ShouldBind(binding) == binding.source # ""

\* Effect of a POST of a binding on the broker.
BrokerBind(binding, status) ==
    IF status = 201 /\ binding \notin Range(bindings)
    THEN bindings' = Append(bindings, binding)
    ELSE UNCHANGED bindings

\* Variant: a failed create_binding is logged and the loop goes on.
RebindUnchecked ==
    /\ pc = "rebind"
    /\ bindIdx <= Len(fetched)
    /\ LET binding == fetched[bindIdx]
           sent == [source |-> binding.source,
                    routing_key |-> binding.routing_key,
                    arguments |-> binding.arguments]
       IN  IF ShouldBind(binding)
           THEN \E status \in BindStatuses :
                   /\ send_api_request("POST", Name, status)
                   /\ BrokerBind(sent, status)
                   /\ bindCalls' = Append(bindCalls, sent)
                   /\ Call("create_binding", Name)
                   /\ bindIdx' = bindIdx + 1
                   /\ UNCHANGED << pc, haltedAt >>
           ELSE /\ bindIdx' = bindIdx + 1
                /\ UNCHANGED << bindings, bindCalls, calls, pc, haltedAt,
                             api >>
    /\ UNCHANGED << exists, decl, msgs, unacked, settings, fetched,
                    messages_moved, moved_back, mv, initial, fn >>

\* lines 98-105: one iteration of the loop over the fetched bindings.
Rebind ==
    /\ pc = "rebind"
    /\ bindIdx <= Len(fetched)
    /\ LET binding == fetched[bindIdx]
           sent == [source |-> binding.source,
                    routing_key |-> binding.routing_key,
                    arguments |-> binding.arguments]
       IN  IF ShouldBind(binding)
           THEN \E status \in BindStatuses :
                   /\ send_api_request("POST", Name, status)
                   /\ BrokerBind(sent, status)
                   /\ bindCalls' = Append(bindCalls, sent)
                   /\ Call("create_binding", Name)
                   /\ IF create_binding_ok(status)
                      THEN /\ bindIdx' = bindIdx + 1
                           /\ UNCHANGED << pc, haltedAt >>
                      ELSE /\ Abort("rebind")
                           /\ UNCHANGED bindIdx
           ELSE /\ bindIdx' = bindIdx + 1
                /\ UNCHANGED << bindings, bindCalls, calls, pc, haltedAt,
                             api >>
    /\ UNCHANGED << exists, decl, msgs, unacked, settings, fetched,
                    messages_moved, moved_back, mv, initial, fn >>

\* line 98: the loop is exhausted.
RebindDone ==
    /\ pc = "rebind"
    /\ bindIdx > Len(fetched)
    /\ pc' = "move_back"
    /\ UNCHANGED << broker, haltedAt, settings, fetched, bindIdx,
                    messages_moved, moved_back, mv, calls, bindCalls,
                    initial, api, fn >>

\* Variant: the migration goes on when no more messages came back than went.
CountsAgreeAtMost(forward, back) == forward # -1 /\ back <= forward

\* Variant: only the forward result is tested, the comparison is missing.
CountsAgreeForwardOnly(forward, back) == forward # -1

\* Lines 115-123: the checks between the return move and the delete of the
\* temp queue; TRUE when the migration goes on.
CountsAgree(forward, back) == forward # -1 /\ back = forward

\* lines 112-123
VerifyCount ==
    /\ pc = "verify_count"
    /\ IF CountsAgree(messages_moved[1], moved_back[1])
       THEN pc' = "delete_temp" /\ UNCHANGED haltedAt
       ELSE Abort("verify_count")
    /\ UNCHANGED << broker, settings, fetched, bindIdx, messages_moved,
                    moved_back, mv, calls, bindCalls, initial, api, fn >>

\* lines 125-131
DeleteTemp ==
    /\ pc = "delete_temp"
    /\ \E status \in DeleteStatuses(TempName(Name), FALSE) :
        /\ send_api_request("DELETE", TempName(Name), status)
        /\ BrokerDelete(TempName(Name), status)
        /\ IF delete_queue_ok(status)
           THEN pc' = "done" /\ UNCHANGED haltedAt
           ELSE Abort("delete_temp")
    /\ Call("delete_queue", TempName(Name))
    /\ UNCHANGED << unacked, settings, fetched, bindIdx, messages_moved,
                    moved_back, mv, bindCalls, initial, fn >>

\* Variant: the interrupt handler goes on to remove the temp queue.
InterruptCleanup ==
    /\ pc \notin {"done", "aborted", "delete_temp"}
    /\ pc' = "delete_temp"
    /\ haltedAt' = "interrupt"
    /\ IF InMove /\ Running
       THEN /\ mv' = [mv EXCEPT !.phase = "returned", !.exit = "interrupt",
                                !.open = {}]
            /\ CloseConnections(mv.source)
       ELSE UNCHANGED << mv, msgs, unacked >>
    /\ UNCHANGED << exists, decl, bindings, settings, fetched, bindIdx,
                    messages_moved, moved_back, calls, bindCalls,
                    initial, api, fn >>

\* lines 133-136: KeyboardInterrupt at any point; inside move_messages it
\* passes the `except Exception` handlers and the finally block closes the
\* connections on its way out.
Interrupt ==
    /\ pc \notin {"done", "aborted"}
    /\ Abort("interrupt")
    /\ IF InMove /\ Running
       THEN /\ mv' = [mv EXCEPT !.phase = "returned", !.exit = "interrupt",
                                !.open = {}]
            /\ CloseConnections(mv.source)
       ELSE UNCHANGED << mv, msgs, unacked >>
    /\ UNCHANGED << exists, decl, bindings, settings, fetched, bindIdx,
                    messages_moved, moved_back, calls, bindCalls,
                    initial, api, fn >>

\* lines 87-93 under a KeyboardInterrupt: the consume loop has ended by the
\* timeout and the finally block is closing the connections when the
\* interrupt is raised inside it. `except Exception` (line 92) does not
\* catch it, so the loop over the connections is left: before the source
\* connection was closed, or after it and before the target connection was.
\* The value move_messages was returning is dropped and the interrupt
\* reaches the handler of migrate_queue (lines 133-136).
InterruptDuringClose ==
    /\ InMove
    /\ mv.phase = "consume"
    /\ Abort("interrupt")
    /\ \E closed \in {{}, {"source"}} :
        mv' = [mv EXCEPT !.phase = "returned", !.exit = "interrupt_close",
                         !.open = @ \ closed]
    /\ UNCHANGED << broker, settings, fetched, bindIdx, messages_moved,
                    moved_back, calls, bindCalls, initial, api, fn >>

Next ==
    \/ FetchSettings
    \/ CheckPolicy
    \/ FetchBindings
    \/ CreateTemp
    \/ MoveConnect
    \/ MoveDeclare
    \/ MoveDeliver
    \/ MoveTimeout
    \/ MoveConsumeError
    \/ MovePublish
    \/ MoveAck
    \/ MoveNack
    \/ DeleteOriginal
    \/ RecreateOriginal
    \/ Rebind
    \/ RebindDone
    \/ VerifyCount
    \/ DeleteTemp
    \/ Interrupt
    \/ InterruptDuringClose

Spec == Init /\ [][Next]_vars

\* ------------------------------------- the migration beside a publisher
\* The k-th message an application publishes to the original queue while the
\* tool runs.
PublishedMsg(k) == Msg(MaxMsgs + k)

\* Number of messages the application has published so far: until the
\* original queue is deleted none of them can have left the two queues.
PublishedSoFar ==
    Cardinality({ m \in Range(msgs[Name]) \cup Range(msgs[TempName(Name)])
                        \cup Range(unacked) : m.body > MaxMsgs })

\* An application publishes one more message to the original queue while the
\* tool drains it (message_utils.py lines 44-46 consume whatever arrives).
Publish ==
    /\ pc \in {"move_forward", "delete_original"}
    /\ exists[Name]
    /\ PublishedSoFar < MaxPublished
    /\ msgs' = [msgs EXCEPT ![Name] =
                    Append(@, PublishedMsg(PublishedSoFar + 1))]
    /\ UNCHANGED << exists, decl, bindings, unacked, pc, haltedAt, settings,
                    fetched, bindIdx, messages_moved, moved_back, mv, calls,
                    bindCalls, initial, api, fn >>

\* Runs on a broker without a left-over temp queue, the original queue
\* carrying no arguments and no binding besides the default one.
InitPub ==
    /\ Init
    /\ ~exists[TempName(Name)]
    /\ decl[Name].arguments = EmptyArgs
    /\ Len(bindings) <= 1

NextPub ==
    \/ Next
    \/ Publish

\* Every call the tool makes returns: a step of the tool that can be taken
\* is taken. Nothing is asked of the publisher.
SpecPub == InitPub /\ [][NextPub]_vars /\ WF_vars(Next)

\* ------------------------------------------- the helper functions alone
\* No migration is running.
Parked ==
    /\ exists = [q \in QueueNames |-> FALSE]
    /\ decl = [q \in QueueNames |-> NoDecl]
    /\ msgs = [q \in QueueNames |-> << >>]
    /\ bindings = << >>
    /\ unacked = << >>
    /\ pc = "idle"
    /\ haltedAt = None
    /\ settings = None
    /\ fetched = << >>
    /\ bindIdx = 1
    /\ messages_moved = << >>
    /\ moved_back = << >>
    /\ mv = IdleMove
    /\ calls = << >>
    /\ bindCalls = << >>
    /\ api = NoRequest
    /\ initial = [exists |-> FALSE, decl |-> NoDecl, msgs |-> << >>,
                  bindings |-> << >>, tempExists |-> FALSE,
                  tempMsgs |-> << >>]

QueueInfos ==
    { [durable |-> f.durable, exclusive |-> f.exclusive,
       auto_delete |-> f.auto_delete, arguments |-> a] :
        f \in Flags, a \in ArgMappings }

InitFn ==
    /\ Parked
    /\ \E t \in QueueTypes, qi \in QueueInfos :
        fn = [IdleCall EXCEPT !.step = "called", !.queue_type = t,
                              !.queue_info = qi, !.given = qi.arguments]

\* args, removed = remove_unsupported_keys(arguments, queue_type)
FilterOnce ==
    /\ fn.step = "called"
    /\ fn' = [fn EXCEPT
                !.step = "filtered",
                !.first = remove_unsupported_keys(fn.queue_info.arguments,
                                                  fn.queue_type),
                !.queue_info.arguments =
                    ArgumentsAfterRemove(fn.queue_info.arguments,
                                         fn.queue_type)]
    /\ UNCHANGED << broker, pc, haltedAt, settings, fetched, bindIdx,
                    messages_moved, moved_back, mv, calls, bindCalls,
                    initial, api >>

\* remove_unsupported_keys applied to the mapping it returned.
FilterTwice ==
    /\ fn.step = "filtered"
    /\ fn' = [fn EXCEPT
                !.step = "refiltered",
                !.second = remove_unsupported_keys(fn.first.args,
                                                   fn.queue_type)]
    /\ UNCHANGED << broker, pc, haltedAt, settings, fetched, bindIdx,
                    messages_moved, moved_back, mv, calls, bindCalls,
                    initial, api >>

\* blockers, warnings = detect_migration_blockers(queue_info, "quorum");
\* SUPPORTED_SETTINGS has an entry for "quorum" only. The analyzer is run on
\* a queue as it is, or on one whose arguments the migration has filtered.
DetectBlockers ==
    /\ fn.step \in {"called", "filtered"}
    /\ fn.queue_type = "quorum"
    /\ fn' = [fn EXCEPT
                !.step = "detected",
                !.blockers = detect_migration_blockers(fn.queue_info,
                                                       fn.queue_type),
                !.warnings = detect_migration_warnings(fn.queue_info,
                                                       fn.queue_type)]
    /\ UNCHANGED << broker, pc, haltedAt, settings, fetched, bindIdx,
                    messages_moved, moved_back, mv, calls, bindCalls,
                    initial, api >>

\* plan = generate_migration_plan(vhost, queue_name, queue_info): the
\* settings are given or fetched (no plan when the fetch fails), then the
\* blockers and warnings are detected and the policies of the vhost asked for.
GeneratePlan ==
    /\ fn.step = "called"
    /\ fn.queue_type = "quorum"
    /\ \E have_info \in BOOLEAN, queue_name \in PlanQueueNames,
          status \in {200} \cup Unavailable, listed \in PolicyLists :
        /\ status # 200 => listed = << >>
        /\ IF have_info
           THEN fn' = [fn EXCEPT
                         !.step = "planned",
                         !.queue_name = queue_name,
                         !.policies = listed,
                         !.status = status,
                         !.blockers =
                             detect_migration_blockers(fn.queue_info, "quorum"),
                         !.warnings =
                             detect_migration_warnings(fn.queue_info, "quorum"),
                         !.plan = generate_migration_plan(
                                      fn.queue_info, listed, queue_name, status)]
           ELSE /\ queue_name # << >>
                /\ fn' = [fn EXCEPT !.step = "no_plan",
                                    !.queue_name = queue_name]
    /\ UNCHANGED << broker, pc, haltedAt, settings, fetched, bindIdx,
                    messages_moved, moved_back, mv, calls, bindCalls,
                    initial, api >>

\* ok = delete_queue(vhost, name): the answer of the broker to the DELETE,
\* and what delete_queue makes of it.
DeleteQueue ==
    /\ fn.step = "called"
    /\ \E status \in DeleteAnswers :
        fn' = [fn EXCEPT !.step = "deleted", !.status = status,
                         !.deleted = delete_queue_ok(status)]
    /\ UNCHANGED << broker, pc, haltedAt, settings, fetched, bindIdx,
                    messages_moved, moved_back, mv, calls, bindCalls,
                    initial, api >>

NextFn ==
    \/ FilterOnce
    \/ FilterTwice
    \/ DetectBlockers
    \/ GeneratePlan
    \/ DeleteQueue

SpecFn == InitFn /\ [][NextFn]_vars


\* ------------------------------------------------------------ vocabulary
Issued(op, q) == << op, q >> \in Range(calls)

Held(m) ==
    m \in Range(msgs[Name]) \cup Range(msgs[TempName(Name)]) \cup Range(unacked)

ReturnedCount == mv.phase = "returned" /\ mv.result # << >> /\ mv.result[1] >= 0

\* The steps of migrate_queue in the order of its source lines.
StepOrder ==
    << "fetch_settings", "check_policy", "fetch_bindings", "create_temp",
       "move_forward", "delete_original", "recreate_original", "rebind",
       "move_back", "verify_count", "delete_temp", "done" >>

StepIndex(step) == CHOOSE i \in DOMAIN StepOrder : StepOrder[i] = step

\* The calls of a run that recreates n bindings, in the order of the source
\* lines that issue them.
CallOrder(n) ==
    << << "create_queue", TempName(Name) >>, << "move_messages", Name >>,
       << "delete_queue", Name >>, << "create_queue", Name >> >>
    \o [i \in 1..n |-> << "create_binding", Name >>]
    \o << << "move_messages", TempName(Name) >>,
          << "delete_queue", TempName(Name) >> >>

\* queue_migrator.py lines 138-145: the exit status of the process after
\* migrate_queue returned. migrate_queue returns None from every branch and
\* the result is not looked at; the script ends without sys.exit.
ExitStatus(step) == 0

\* Number of times migrate_queue has issued the call op on the queue q.
Times(op, q) == Cardinality({ i \in DOMAIN calls : calls[i] = << op, q >> })

Blocked == detect_migration_blockers(initial.decl, TargetType) # << >>

\* ------------------------------------------------------------------ claims

\* C1: in every state of a migration, every message the original queue held
\* at the start is in the original queue, in the temp queue, or delivered to
\* the tool and not yet acknowledged.
C1_NoMessageLost ==
    \A i \in DOMAIN initial.msgs : Held(initial.msgs[i])

\* C2: when the migration completes, the queue under the original name holds
\* exactly the messages the original held, in their order, and the temp queue
\* no longer exists.
C2_CompletedHoldsOriginalMessages ==
    pc = "done" =>
        /\ exists[Name]
        /\ msgs[Name] = initial.msgs
        /\ ~exists[TempName(Name)]

\* C3 as stated: once the binding loop is over, create_binding has been
\* called for every fetched binding.
C3_EveryFetchedBindingCreated ==
    pc \in {"move_back", "verify_count", "delete_temp", "done"} =>
        \A i \in DOMAIN fetched : fetched[i] \in Range(bindCalls)

\* C3 amended: once the binding loop is over, create_binding has been called,
\* in the order fetched and with the fetched source exchange, routing key and
\* arguments, for exactly the fetched bindings whose source exchange is not
\* empty; while it runs, for those among the bindings already passed; and
\* after a completed migration each of them is a binding of the recreated
\* queue.
C3_NamedExchangeBindingsCreated ==
    /\ pc \in {"move_back", "verify_count", "delete_temp", "done"} =>
          bindCalls = SelectSeq(fetched, LAMBDA b : b.source # "")
    /\ pc = "rebind" =>
          bindCalls = SelectSeq(SubSeq(fetched, 1, bindIdx - 1),
                                LAMBDA b : b.source # "")
    /\ pc = "done" =>
          \A i \in DOMAIN fetched :
              fetched[i].source # "" => fetched[i] \in Range(bindings)

C3_Witness ==
    /\ pc = "done"
    /\ Len(fetched) = 3
    /\ fetched[2].source # ""
    /\ fetched[3].source # ""
    /\ bindCalls = SubSeq(fetched, 2, 3)

\* C4: the delete of the temp queue is issued only when the return move
\* returned the count the forward move returned; after a mismatch the
\* migration is halted and the delete is never issued.
C4_TempDeletedOnlyOnEqualCounts ==
    /\ Issued("delete_queue", TempName(Name)) =>
          /\ messages_moved # << >>
          /\ moved_back = messages_moved
    /\ (moved_back # << >> /\ moved_back # messages_moved
          /\ pc # "verify_count") =>
          /\ pc = "aborted"
          /\ ~Issued("delete_queue", TempName(Name))

C4_Witness ==
    /\ pc = "done"
    /\ Issued("delete_queue", TempName(Name))
    /\ moved_back = << 2 >>

\* C5: for a queue with a non-empty blocker list (non-durable, exclusive or
\* auto-delete) no create_queue, move_messages, delete_queue or
\* create_binding is issued.
C5_BlockedQueueNotTouched ==
    Blocked => calls = << >>

\* C6: when the temp queue already exists at CREATE_TEMP, the migration
\* aborts there, before any message is moved.
C6_ExistingTempAborts ==
    initial.tempExists =>
        /\ ~Issued("move_messages", Name)
        /\ pc \notin {"move_forward", "delete_original", "recreate_original",
                      "rebind", "move_back", "verify_count", "delete_temp",
                      "done"}

\* C7: in a move_messages call the number of source acks never exceeds the
\* number of confirmed publishes, and the confirmed publishes are at most
\* one ahead of the acks; an ack is only ever sent for a message whose
\* publish was confirmed.
C7_AckOnlyAfterConfirmedPublish ==
    /\ mv.acks <= mv.published
    /\ mv.published <= mv.acks + 1
    /\ mv.phase = "ack" => mv.published = mv.acks + 1

C7_Witness ==
    /\ mv.phase = "ack"
    /\ mv.acks = 1
    /\ mv.published = 2

\* C8: when move_messages has returned a count k >= 0, what it published is
\* the first k messages the source delivered, body and properties unchanged,
\* and they sit at the end of the destination in the order consumed.
C8_OrderAndPayloadPreserved ==
    ReturnedCount =>
        /\ mv.result[1] = mv.messages_moved
        /\ mv.sent = SubSeq(mv.srcStart, 1, mv.result[1])
        /\ mv.delivered = mv.sent
        /\ msgs[mv.target] = mv.dstStart \o mv.sent

C8_Witness ==
    /\ ReturnedCount
    /\ mv.result[1] = 2
    /\ mv.sent[1] # mv.sent[2]

\* C9: when the passive existence check on the destination fails,
\* move_messages returns -1 and no source message has been delivered,
\* published, acked or nacked; the source queue is as it was.
C9_MissingDestinationConsumesNothing ==
    mv.passive = "failed" =>
        /\ mv.phase = "returned"
        /\ mv.result = << -1 >>
        /\ mv.delivered = << >>
        /\ mv.published = 0
        /\ mv.acks = 0
        /\ mv.nacks = 0
        /\ unacked = << >>
        /\ msgs[mv.source] = mv.srcStart

C9_Witness ==
    /\ mv.passive = "failed"
    /\ mv.srcStart # << >>
    /\ pc = "aborted"

\* C10: move_messages on an empty source that ends by the timeout returns 0;
\* a forward result of 0 is not a halt: DELETE_ORIGINAL is the next step, and
\* a return move of 0 after it passes the count check.
C10_EmptySourceIsSuccess ==
    /\ (mv.exit = "timeout" /\ mv.srcStart = << >>) => mv.result = << 0 >>
    /\ messages_moved = << 0 >> =>
          /\ haltedAt # "move_forward"
          /\ \/ pc = "delete_original"
             \/ Issued("delete_queue", Name)
             \/ haltedAt = "interrupt"
    /\ (messages_moved = << 0 >> /\ moved_back = << 0 >>) =>
          haltedAt # "verify_count"

C10_Witness ==
    /\ pc = "done"
    /\ initial.msgs = << >>
    /\ messages_moved = << 0 >>
    /\ moved_back = << 0 >>

\* C11: when move_messages ends by the inactivity timeout, the value it
\* returns is the number of basic_publish calls made on the destination and
\* the number of basic_ack calls made on the source, one of each for every
\* message delivered.
C11_ReturnCountsPublishesAndAcks ==
    mv.exit = "timeout" =>
        /\ mv.result = << mv.publish_calls >>
        /\ mv.result = << mv.ack_calls >>
        /\ mv.publish_calls = Len(mv.delivered)
        /\ mv.published = mv.publish_calls
        /\ mv.acks = mv.ack_calls
        /\ mv.nack_calls = 0

C11_Witness ==
    /\ mv.exit = "timeout"
    /\ mv.result = << 2 >>
    /\ mv.publish_calls = 2
    /\ mv.ack_calls = 2

\* C12: when publishing message k fails, message k is negatively
\* acknowledged and is back at the head of the source queue, no further
\* message is delivered or published, move_messages returns -1, and the k-1
\* messages relocated before it are in the destination and not in the
\* source.
C12_PublishFailureKeepsPartialProgress ==
    (mv.failed = "publish" /\ mv.exit \in {"nack", "nack_raised"}) =>
        LET k == mv.publish_calls
        IN  /\ mv.result = << -1 >>
            /\ mv.nack_calls = 1
            /\ Len(mv.delivered) = k
            /\ mv.published = k - 1
            /\ unacked = << >>
            /\ msgs[mv.source] = SubSeq(mv.srcStart, k, Len(mv.srcStart))
            /\ msgs[mv.target] = mv.dstStart \o mv.sent
            /\ mv.sent = [i \in 1..(k - 1) |-> PublishedMessage(mv.srcStart[i])]
            /\ pc \in {"aborted", "verify_count"}

C12_Witness ==
    /\ mv.failed = "publish"
    /\ mv.exit = "nack"
    /\ mv.publish_calls = 2
    /\ Len(mv.srcStart) = 2
    /\ Len(msgs[mv.target]) = Len(mv.dstStart) + 1

\* C13: the original queue is never deleted while it holds messages: a step
\* that removes it starts from an empty queue, and DELETE_ORIGINAL on a queue
\* that still holds messages halts the migration and leaves the queue and
\* its messages in place.
C13_OriginalDeletedOnlyWhenEmpty ==
    [][/\ (exists[Name] /\ ~exists'[Name]) => msgs[Name] = << >>
       /\ (pc = "delete_original" /\ msgs[Name] # << >>) =>
              /\ pc' = "aborted"
              /\ exists'[Name]
              /\ msgs'[Name] = msgs[Name]]_vars

C13_Witness ==
    /\ haltedAt = "delete_original"
    /\ Issued("delete_queue", Name)
    /\ exists[Name]
    /\ msgs[Name] # << >>
    /\ messages_moved = << Len(initial.msgs) - Len(msgs[Name]) >>

\* C14: a halt at FETCH_SETTINGS, FETCH_BINDINGS or CREATE_TEMP leaves the
\* broker as it was: the same queues with the same declarations, messages
\* and bindings, and no move or delete was issued.
C14_EarlyAbortLeavesBrokerUnchanged ==
    haltedAt \in {"fetch_settings", "fetch_bindings", "create_temp"} =>
        /\ pc = "aborted"
        /\ exists[Name] = initial.exists
        /\ exists[TempName(Name)] = initial.tempExists
        /\ msgs[Name] = initial.msgs
        /\ msgs[TempName(Name)] = initial.tempMsgs
        /\ decl[Name] = initial.decl
        /\ bindings = initial.bindings
        /\ bindCalls = << >>
        /\ unacked = << >>
        /\ Range(calls) \subseteq {<< "create_queue", TempName(Name) >>}

C14_Witness ==
    /\ haltedAt = "create_temp"
    /\ Issued("create_queue", TempName(Name))
    /\ initial.exists
    /\ initial.msgs # << >>
    /\ initial.bindings # << >>
    /\ ~exists[TempName(Name)]

\* C15: when the forward move returned -1 or DELETE_ORIGINAL failed, the
\* migration has halted with the original queue and the temp queue both
\* existing, and it has not recreated the original, created a binding, run
\* the return move or deleted the temp queue.
C15_ForwardFailureKeepsBothQueues ==
    (messages_moved = << -1 >> \/ haltedAt = "delete_original") =>
        /\ pc = "aborted"
        /\ haltedAt \in {"move_forward", "delete_original"}
        /\ haltedAt = "move_forward" <=> messages_moved = << -1 >>
        /\ exists[Name]
        /\ exists[TempName(Name)]
        /\ ~Issued("create_queue", Name)
        /\ bindCalls = << >>
        /\ ~Issued("create_binding", Name)
        /\ ~Issued("move_messages", TempName(Name))
        /\ ~Issued("delete_queue", TempName(Name))
        /\ moved_back = << >>

C15_Witness ==
    /\ messages_moved = << -1 >>
    /\ haltedAt = "move_forward"
    /\ msgs[Name] # << >>
    /\ Len(msgs[TempName(Name)]) > Len(initial.tempMsgs)

\* C16: when RECREATE_ORIGINAL failed, the migration has halted, the
\* original queue does not exist, the temp queue holds every message the
\* original queue held, in order, and no binding was created, no return move
\* was run and the temp queue was not deleted.
C16_RecreateFailureKeepsTemp ==
    /\ haltedAt = "recreate_original" => ~exists[Name]
    /\ (Issued("create_queue", Name) /\ ~exists[Name]) =>
          /\ pc = "aborted"
          /\ haltedAt = "recreate_original"
          /\ exists[TempName(Name)]
          /\ msgs[TempName(Name)] =
                initial.tempMsgs \o
                [i \in DOMAIN initial.msgs |-> PublishedMessage(initial.msgs[i])]
          /\ messages_moved = << Len(initial.msgs) >>
          /\ bindCalls = << >>
          /\ ~Issued("create_binding", Name)
          /\ ~Issued("move_messages", TempName(Name))
          /\ ~Issued("delete_queue", TempName(Name))

C16_Witness ==
    /\ haltedAt = "recreate_original"
    /\ Issued("create_queue", Name)
    /\ Len(initial.msgs) = 2
    /\ Len(msgs[TempName(Name)]) = 2
    /\ fetched # << >>

\* C17: when a create_binding call of REBIND failed, the migration has
\* halted at that binding: it is the last binding attempted, every binding
\* attempted before it was created, the return move was not run, and the
\* temp queue exists, was not deleted and holds every message the original
\* queue held.
C17_FirstBindingFailureStops ==
    /\ haltedAt = "rebind" =>
          /\ bindCalls # << >>
          /\ bindCalls[Len(bindCalls)] \notin Range(bindings)
    /\ (\E i \in DOMAIN bindCalls : bindCalls[i] \notin Range(bindings)) =>
          /\ pc = "aborted"
          /\ haltedAt = "rebind"
          /\ bindIdx \in DOMAIN fetched
          /\ bindCalls =
                SelectSeq([i \in 1..bindIdx |->
                              [source |-> fetched[i].source,
                               routing_key |-> fetched[i].routing_key,
                               arguments |-> fetched[i].arguments]],
                          ShouldBind)
          /\ ShouldBind(fetched[bindIdx])
          /\ \A i \in 1..(Len(bindCalls) - 1) : bindCalls[i] \in Range(bindings)
          /\ ~Issued("move_messages", TempName(Name))
          /\ moved_back = << >>
          /\ ~Issued("delete_queue", TempName(Name))
          /\ exists[TempName(Name)]
          /\ msgs[TempName(Name)] =
                initial.tempMsgs \o
                [i \in DOMAIN initial.msgs |-> PublishedMessage(initial.msgs[i])]

C17_Witness ==
    /\ haltedAt = "rebind"
    /\ bindIdx = 2
    /\ Len(fetched) = 3
    /\ ShouldBind(fetched[3])
    /\ Len(bindCalls) = 1
    /\ initial.msgs # << >>

\* C18: whenever the unconditional delete of the temp queue is about to be
\* issued, the temp queue holds no messages.
C18_TempEmptyWhenDeleted ==
    pc = "delete_temp" => msgs[TempName(Name)] = << >>

\* C19: when DELETE_TEMP failed, the queue under the original name exists
\* with the target type, holds exactly the messages the return move
\* relocated, as many as the forward move relocated, every fetched binding is
\* a binding of it, and the temp queue still exists.
C19_DeleteTempFailureIsComplete ==
    haltedAt = "delete_temp" =>
        /\ pc = "aborted"
        /\ exists[Name]
        /\ decl[Name].arguments["x-queue-type"] = TargetType
        /\ mv.source = TempName(Name)
        /\ msgs[Name] = mv.sent
        /\ moved_back = << Len(msgs[Name]) >>
        /\ moved_back = messages_moved
        /\ \A i \in DOMAIN fetched : fetched[i] \in Range(bindings)
        /\ Range(bindings) = Range(initial.bindings)
        /\ exists[TempName(Name)]

C19_Witness ==
    /\ haltedAt = "delete_temp"
    /\ Issued("delete_queue", TempName(Name))
    /\ Len(msgs[Name]) = 2
    /\ Len(fetched) = 3
    /\ initial.decl.arguments # FilteredArgs(initial.decl.arguments, TargetType)

\* C20: the step in which a KeyboardInterrupt is raised ends the migration
\* as an abort without issuing a call (inside move_messages the connections
\* are closed and an unacknowledged message returns to the source queue),
\* and no step after it changes the broker or the state of the migration.
C20_InterruptAbortsWithoutCleanup ==
    [][/\ haltedAt' = "interrupt" =>
              /\ pc' = "aborted"
              /\ calls' = calls
              /\ bindCalls' = bindCalls
              /\ exists' = exists
              /\ decl' = decl
              /\ bindings' = bindings
              /\ \A q \in QueueNames :
                    msgs'[q] = IF q = mv.source THEN unacked \o msgs[q]
                               ELSE msgs[q]
              /\ unacked' = << >>
       /\ haltedAt = "interrupt" => UNCHANGED vars]_vars

C20_Witness ==
    /\ haltedAt = "interrupt"
    /\ pc = "aborted"
    /\ mv.exit = "interrupt"
    /\ mv.published = 1
    /\ mv.acks = 0
    /\ exists[TempName(Name)]
    /\ exists[Name]
    /\ ~Issued("delete_queue", Name)

\* C21: in one run the temp queue is created at most once, the original
\* queue deleted at most once and recreated at most once, each binding
\* created at most once, the temp queue deleted at most once and
\* move_messages called at most once in each direction; and once the
\* migration has aborted no step changes the broker or the run.
C21_NoRetryNoRollback ==
    /\ [](/\ Times("create_queue", TempName(Name)) <= 1
          /\ Times("delete_queue", Name) <= 1
          /\ Times("create_queue", Name) <= 1
          /\ Times("delete_queue", TempName(Name)) <= 1
          /\ Times("move_messages", Name) <= 1
          /\ Times("move_messages", TempName(Name)) <= 1
          /\ Times("move_messages", Name)
                + Times("move_messages", TempName(Name)) <= 2
          /\ \A i, j \in DOMAIN bindCalls :
                bindCalls[i] = bindCalls[j] => i = j
          /\ Times("create_binding", Name) = Len(bindCalls)
          /\ Len(bindCalls) <= Len(fetched))
    /\ [][pc = "aborted" => UNCHANGED vars]_vars

C21_Witness ==
    /\ pc = "aborted"
    /\ haltedAt = "verify_count"
    /\ Times("create_queue", TempName(Name)) = 1
    /\ Times("delete_queue", Name) = 1
    /\ Times("create_queue", Name) = 1
    /\ Times("move_messages", Name) = 1
    /\ Times("move_messages", TempName(Name)) = 1
    /\ Len(bindCalls) = 2
    /\ msgs[TempName(Name)] # << >>

\* C22: the steps occur only in the order fetch settings, check policy,
\* fetch bindings, create temp, move forward, delete original, recreate
\* original, rebind, move back, verify count, delete temp, done: every step
\* of a run goes to the next step of that order or to the abort, a call is
\* issued only after the calls before it in that order were issued and
\* succeeded, and the policy check goes on to fetch bindings whatever policy
\* it finds.
C22_StepsInFixedOrder ==
    /\ [](/\ calls = SubSeq(CallOrder(Len(bindCalls)), 1, Len(calls))
          /\ Issued("create_queue", TempName(Name)) => fetched = initial.bindings
          /\ Issued("move_messages", Name) => Len(fetched) >= 1
          /\ Issued("delete_queue", Name) =>
                messages_moved # << >> /\ messages_moved # << -1 >>
          /\ Issued("move_messages", TempName(Name)) =>
                /\ exists[Name]
                /\ bindCalls = SelectSeq(fetched, ShouldBind)
                /\ \A i \in DOMAIN bindCalls : bindCalls[i] \in Range(bindings)
          /\ Issued("delete_queue", TempName(Name)) =>
                moved_back # << >> /\ moved_back = messages_moved)
    /\ [][/\ pc' # pc =>
                \/ pc' = "aborted"
                \/ StepIndex(pc') = StepIndex(pc) + 1
          /\ (pc = "check_policy" /\ pc' # pc) =>
                pc' = "fetch_bindings" \/ haltedAt' = "interrupt"]_vars

C22_Witness ==
    /\ pc = "done"
    /\ settings.policy = "ha-all"
    /\ Len(bindCalls) = 2
    /\ calls = CallOrder(2)
    /\ Len(msgs[Name]) = 2

\* C23: once move_messages has returned or let an exception pass, by the
\* timeout, a missing destination, a failed publish, a connection or channel
\* error or an interrupt, none of the connections it opened is open.
C23_ConnectionsClosedOnExit ==
    (mv.phase = "returned" \/ ~InMove) => mv.open = {}

\* C24: remove_unsupported_keys applied to the mapping it returned, for the
\* same target type, returns that mapping again and an empty removed list.
C24_FilterIdempotent ==
    fn.step = "refiltered" =>
        /\ fn.second.args = fn.first.args
        /\ fn.second.removed = << >>

C24_Witness ==
    /\ fn.step = "refiltered"
    /\ fn.queue_type = "quorum"
    /\ Len(fn.first.removed) = 2
    /\ fn.first.args # EmptyArgs
    /\ fn.second.args = fn.first.args

\* C25: remove_unsupported_keys(A, t) returns the entries of A whose key is
\* not in t's unsupported-key list, with their values, and the list of the
\* unsupported keys that were in A, each once; a listed key that is not in A
\* changes nothing, and A itself is left as it was.
C25_FilterRemovesExactlyUnsupported ==
    fn.step \in {"filtered", "refiltered"} =>
        LET A == fn.given
            U == Range(UNSUPPORTED_FEATURES(fn.queue_type))
        IN  /\ DOMAIN fn.first.args = DOMAIN A \ U
            /\ \A k \in DOMAIN fn.first.args : fn.first.args[k] = A[k]
            /\ Range(fn.first.removed) = DOMAIN A \cap U
            /\ Len(fn.first.removed) = Cardinality(DOMAIN A \cap U)
            /\ (DOMAIN A \cap U = {}) => fn.first.args = A
            /\ fn.queue_info.arguments = A

C25_Witness ==
    /\ fn.step = "filtered"
    /\ fn.queue_type = "quorum"
    /\ fn.given # EmptyArgs
    /\ Len(fn.first.removed) = 1
    /\ Cardinality(DOMAIN fn.first.args) = 2
    /\ "x-queue-version" \notin DOMAIN fn.given

\* C26: the temp queue this run declared and the queue recreated under the
\* original name carry the original durability flag and the same arguments:
\* the original arguments without the target type's unsupported keys and
\* with 'x-queue-type' set to the target type; and the arguments of the
\* fetched settings are at both declarations what was fetched.
C26_BothDeclarationsAlike ==
    LET A == initial.decl.arguments
        kept == DOMAIN A \ Range(UNSUPPORTED_FEATURES(TargetType))
        expected == [durable |-> initial.decl.durable, exclusive |-> FALSE,
                     auto_delete |-> FALSE,
                     arguments |->
                        [k \in kept \cup {"x-queue-type"} |->
                            IF k = "x-queue-type" THEN TargetType ELSE A[k]]]
    IN  /\ Issued("create_queue", TempName(Name)) =>
              /\ settings.arguments = A
              /\ settings.durable = initial.decl.durable
        /\ Issued("move_messages", Name) => decl[TempName(Name)] = expected
        /\ (Issued("create_queue", Name) /\ exists[Name]) =>
              /\ decl[Name] = expected
              /\ decl[Name] = decl[TempName(Name)]

C26_Witness ==
    /\ Issued("create_queue", Name)
    /\ exists[Name]
    /\ ~initial.tempExists
    /\ "x-queue-type" \in DOMAIN initial.decl.arguments
    /\ "x-queue-mode" \in DOMAIN initial.decl.arguments
    /\ decl[Name].arguments # initial.decl.arguments
    /\ decl[Name].durable

\* C27: when the run has ended in an abort the exit status of the process is
\* not zero; it is zero only after a completed migration.
C27_AbortExitsNonZero ==
    /\ pc = "aborted" => ExitStatus(pc) # 0
    /\ (pc \in {"done", "aborted"} /\ ExitStatus(pc) = 0) => pc = "done"

\* C28: a control-plane call that failed with a server-side answer or with
\* no answer was attempted more than once before the migration halted on
\* it, and a call that got a client-side answer was attempted once.
C28_ServerFailuresRetried ==
    /\ (/\ pc = "aborted"
        /\ haltedAt \in {"fetch_settings", "fetch_bindings", "create_temp",
                         "delete_original", "recreate_original", "rebind",
                         "delete_temp"}
        /\ api.status \in Unavailable) => api.attempts > 1
    /\ api.status \in {400, 404} => api.attempts = 1

\* C29: for target 'quorum' the blocker list holds the durability blocker
\* exactly when durable is false, the exclusivity blocker exactly when
\* exclusive is true and the auto-delete blocker exactly when auto_delete is
\* true, each once and in this order, and nothing else; the arguments have
\* no part in it.
C29_BlockersExact ==
    fn.step = "detected" =>
        LET qi == fn.queue_info
            B == fn.blockers
            order == << "Non-durable queues cannot be migrated.",
                        "Exclusive queues are not supported.",
                        "Auto-delete queues cannot be migrated." >>
            due == << ~qi.durable, qi.exclusive, qi.auto_delete >>
        IN  /\ \A r \in 1..3 : (order[r] \in Range(B)) <=> due[r]
            /\ Range(B) \subseteq Range(order)
            /\ \A i, j \in DOMAIN B :
                  i < j => \E r, t \in 1..3 :
                              r < t /\ B[i] = order[r] /\ B[j] = order[t]
            /\ B = detect_migration_blockers(
                      [qi EXCEPT !.arguments = EmptyArgs], "quorum")

C29_Witness ==
    /\ fn.step = "detected"
    /\ ~fn.queue_info.durable
    /\ fn.queue_info.exclusive
    /\ ~fn.queue_info.auto_delete
    /\ Len(fn.blockers) = 2
    /\ "x-queue-mode" \in DOMAIN fn.queue_info.arguments

\* C30: the warnings hold one "will be removed" entry for each of
\* x-queue-version, x-queue-master-locator and x-max-priority that is among
\* the arguments, one incompatibility entry for x-queue-mode when its value
\* is lazy and one for overflow when its value is reject-publish-dlx, and
\* nothing else; the blockers are what they are without the arguments.
C30_WarningsExact ==
    fn.step = "detected" =>
        LET args == fn.queue_info.arguments
            W == fn.warnings
            dropped == {"x-queue-version", "x-queue-master-locator",
                        "x-max-priority"} \cap DOMAIN args
            bad == { k \in DOMAIN args :
                        \/ k = "x-queue-mode" /\ args[k] = "lazy"
                        \/ k = "overflow" /\ args[k] = "reject-publish-dlx" }
        IN  /\ Range(W) = { RemovedWarning(k) : k \in dropped }
                          \cup { IncompatibleWarning(k, args[k]) : k \in bad }
            /\ Len(W) = Cardinality(dropped) + Cardinality(bad)
            /\ fn.blockers = detect_migration_blockers(
                                [fn.queue_info EXCEPT !.arguments = EmptyArgs],
                                "quorum")
            /\ (fn.queue_info.durable /\ ~fn.queue_info.exclusive
                    /\ ~fn.queue_info.auto_delete) => fn.blockers = << >>

C30_Witness ==
    /\ fn.step = "detected"
    /\ fn.queue_info.durable
    /\ ~fn.queue_info.exclusive
    /\ ~fn.queue_info.auto_delete
    /\ fn.blockers = << >>
    /\ Len(fn.warnings) = 3
    /\ IncompatibleWarning("x-queue-mode", "lazy") \in Range(fn.warnings)
    /\ IncompatibleWarning("overflow", "reject-publish-dlx") \in Range(fn.warnings)
    /\ RemovedWarning("x-max-priority") \in Range(fn.warnings)

\* C31: a mirroring policy never blocks. In every plan, the blockers are the
\* blockers detected from the queue's settings; when the policy found for the
\* queue has one of the five ha-* keys in its definition the warnings are the
\* detected warnings followed by exactly one mirroring warning, and when no
\* policy is found or its definition has none of these keys the warnings are
\* the detected warnings.
C31_MirroringWarnsNeverBlocks ==
    fn.step = "planned" =>
        LET found == fn.plan.mirroring_policy
            mirroring ==
                /\ found # << >>
                /\ \E k \in {"ha-mode", "ha-params", "ha-sync-mode",
                             "ha-promote-on-shutdown", "ha-promote-on-failure"} :
                       k \in found[1].definition
        IN  /\ fn.plan.blockers = fn.blockers
            /\ IF mirroring
               THEN fn.plan.warnings = Append(fn.warnings, MirroringWarning)
               ELSE fn.plan.warnings = fn.warnings

\* A plan for a queue with a blocker and a warning of its own, for which a
\* mirroring policy was found: one warning more, the same blockers.
C31_Witness ==
    /\ fn.step = "planned"
    /\ fn.plan.mirroring_policy # << >>
    /\ "ha-mode" \in fn.plan.mirroring_policy[1].definition
    /\ fn.blockers # << >>
    /\ fn.warnings # << >>
    /\ Len(fn.plan.warnings) = Len(fn.warnings) + 1
    /\ fn.plan.blockers = fn.blockers

\* C32: policy lookup is first-match-wins. The policy of a plan is the first
\* policy, in the order the vhost's policies are listed, that has a pattern
\* matching the queue name and applies to 'queues' or 'all'; policies listed
\* after it play no part, and when no listed policy qualifies (or the list
\* could not be fetched) the plan has no policy.
C32_FirstMatchWins ==
    fn.step = "planned" =>
        LET qualifying ==
                { i \in DOMAIN fn.policies :
                    /\ fn.policies[i].apply_to \in {"queues", "all"}
                    /\ fn.policies[i].pattern # << >>
                    /\ fn.queue_name # << >>
                    /\ re_match(fn.policies[i].pattern[1], fn.queue_name) }
        IN  IF fn.status = 200 /\ qualifying # {}
            THEN \E i \in qualifying :
                    /\ \A j \in qualifying : i <= j
                    /\ fn.plan.mirroring_policy = << fn.policies[i] >>
            ELSE fn.plan.mirroring_policy = << >>

\* Two listed policies qualify for the queue and have different definitions:
\* the plan carries the one listed first, whole and alone.
C32_Witness ==
    /\ fn.step = "planned"
    /\ fn.status = 200
    /\ Len(fn.policies) >= 2
    /\ PolicyApplies(fn.policies[1], fn.queue_name)
    /\ PolicyApplies(fn.policies[2], fn.queue_name)
    /\ fn.policies[1].definition # fn.policies[2].definition
    /\ fn.plan.mirroring_policy = << fn.policies[1] >>

C34_AtLeastOnce ==
    (mv.phase = "returned" /\ mv.published > mv.acks) =>
        LET m == mv.delivered[Len(mv.delivered)]
        IN  /\ mv.published = mv.acks + 1
            /\ mv.delivered # << >>
            /\ m \in Range(msgs[mv.source])
            /\ PublishedMessage(m) \in Range(msgs[mv.target])
            /\ mv.result \in { << >>, << -1 >> }

\* basic_ack raised for the second message of a queue of two: the first
\* message is in the destination only, the second one in both queues.
C34_Witness ==
    /\ mv.phase = "returned"
    /\ mv.failed = "ack"
    /\ mv.ack_calls = 2
    /\ mv.result = << -1 >>
    /\ Len(mv.delivered) = 2
    /\ mv.delivered[2] \in Range(msgs[mv.source])
    /\ PublishedMessage(mv.delivered[2]) \in Range(msgs[mv.target])
    /\ mv.delivered[1] \notin Range(msgs[mv.source])

\* C35: delete_queue reports success when the broker deleted the queue (200,
\* 204) and when it answers that the queue does not exist (404), and failure
\* for every other answer (400 for a refused if-empty delete, 500, none).
C35_DeleteAbsentIsSuccess ==
    fn.step = "deleted" => (fn.deleted <=> fn.status \in {200, 204, 404})

\* C36: when the return move (temp -> original) returns -1, migrate_queue
\* halts and the temp queue is not deleted, whatever count the forward move
\* returned (0 included): the forward count is never -1 at that point, so the
\* comparison of the two counts fails.
C36_FailedReturnMoveKeepsTemp ==
    moved_back = << -1 >> =>
        /\ messages_moved # << >>
        /\ messages_moved[1] >= 0
        /\ pc \in {"verify_count", "aborted"}
        /\ pc = "aborted" => haltedAt \in {"verify_count", "interrupt"}
        /\ ~Issued("delete_queue", TempName(Name))
        /\ exists[TempName(Name)]

\* The forward move of an empty queue returned 0, the return move failed, and
\* the migration halted at the comparison with the temp queue in place.
C36_Witness ==
    /\ moved_back = << -1 >>
    /\ messages_moved = << 0 >>
    /\ pc = "aborted"
    /\ haltedAt = "verify_count"
    /\ exists[TempName(Name)]

\* C37: in the binding loop, a fetched binding with an empty source exchange
\* (the default-exchange binding) is passed over: no request is sent for it,
\* the broker is left alone and the loop goes to the next binding, so the
\* migration never halts on it; for every other fetched binding
\* create_binding is called with what was fetched, one binding after the
\* other in the order fetched.
C37_DefaultBindingSkipped ==
    /\ [](haltedAt = "rebind" =>
            /\ bindIdx \in DOMAIN fetched
            /\ fetched[bindIdx].source # ""
            /\ bindCalls # << >>
            /\ bindCalls[Len(bindCalls)] = fetched[bindIdx])
    /\ [][(pc = "rebind" /\ (bindIdx' # bindIdx \/ haltedAt' = "rebind")) =>
            IF fetched[bindIdx].source = ""
            THEN /\ bindCalls' = bindCalls
                 /\ calls' = calls
                 /\ api' = api
                 /\ bindings' = bindings
                 /\ pc' = "rebind"
                 /\ bindIdx' = bindIdx + 1
            ELSE /\ bindCalls' = Append(bindCalls, fetched[bindIdx])
                 /\ calls' = Append(calls, << "create_binding", Name >>)
                 /\ bindIdx' \in {bindIdx, bindIdx + 1}]_vars

\* The loop has passed the default-exchange binding without a call and
\* created the binding fetched after it; a third one is still to come.
C37_Witness ==
    /\ pc = "rebind"
    /\ Len(fetched) = 3
    /\ bindIdx = 3
    /\ fetched[1].source = ""
    /\ bindCalls = << fetched[2] >>
    /\ Times("create_binding", Name) = 1

\* C38: every key that migration strips from a queue's arguments for the
\* target 'quorum' is named in a warning of the analyzer: once
\* remove_unsupported_keys and detect_migration_blockers have both been
\* applied to the same arguments, each removed key is the key of at least one
\* of the warnings.
C38_RemovedKeysSurfaced ==
    (fn.step = "detected" /\ fn.first.removed # << >>) =>
        \A i \in DOMAIN fn.first.removed :
            \E j \in DOMAIN fn.warnings :
                fn.warnings[j].key = fn.first.removed[i]

====
